---- MODULE Spec2Model ----
(***************************************************************************)
(* Authorization core of the document/chat application: the role          *)
(* hierarchy and capability resolver (PermissionsContext), the row-level  *)
(* security policies of the migrations, the folder access dialog, the     *)
(* Team page and the invitation flow (InviteUserDialog, AcceptInvite).    *)
(*                                                                         *)
(* The data store is modelled table by table; every write is a statement  *)
(* issued by an actor (auth.uid()) and filtered by the policies.  Client  *)
(* handlers are actions guarded by the client-side checks of the code;    *)
(* the Api* actions are the same statements sent without the client.      *)
(***************************************************************************)
EXTENDS Integers, FiniteSets, Sequences, TLC

\* ---------------------------------------------------------------- bounds
NumFolders == 1
NumDocs == 1
NumInvites == 2
MaxNow == 9

\* the principals: three accounts/emails, and the browsers running the client
Users == {"u1", "u2", "u3"}
Browsers == {"b1", "b2"}
FolderIds == 1..NumFolders
DocIds == 1..NumDocs
InviteIds == 1..NumInvites

\* auth.uid() of a request that carries no session (NULL); useAuth().user = null
Anon == "anon"
Actors == Users \cup {Anon}

\* ------------------------------------------------------- roles (app_role)
AppRoles == {"super_admin", "admin", "editor", "reader"}
\* AppRole's null: no row in user_roles / role not loaded
NoRole == "null"
RoleOrNull == AppRoles \cup {NoRole}

\* folder_access_level
AccessLevels == {"private", "team", "custom"}

\* ------------------------------------------ PermissionsContext (client)
roleHierarchy_swapped(r) ==
  CASE r = "super_admin" -> 4
    [] r = "admin" -> 2
    [] r = "editor" -> 3
    [] r = "reader" -> 1

roleHierarchy(r) ==
  CASE r = "super_admin" -> 4
    [] r = "admin" -> 3
    [] r = "editor" -> 2
    [] r = "reader" -> 1

hasRole_strict(role, minRole) ==
  IF role = NoRole \/ minRole = NoRole THEN FALSE
  ELSE roleHierarchy(role) > roleHierarchy(minRole)

hasRole(role, minRole) ==
  IF role = NoRole \/ minRole = NoRole THEN FALSE
  ELSE roleHierarchy(role) >= roleHierarchy(minRole)

\* the context value built on every render from the role state
PermissionsValue(role, loading) ==
  [ role                    |-> role,
    loading                 |-> loading,
    canManageUsers          |-> role = "super_admin",
    canViewUsers            |-> role = "super_admin" \/ role = "admin",
    canCreateFolders        |-> hasRole(role, "editor"),
    canDeleteFolders        |-> hasRole(role, "admin"),
    canRenameFolders        |-> hasRole(role, "editor"),
    canUploadDocuments      |-> hasRole(role, "editor"),
    canDeleteDocuments      |-> hasRole(role, "admin"),
    canRenameDocuments      |-> hasRole(role, "editor"),
    canUseChat              |-> role # NoRole,
    canExportConversations  |-> hasRole(role, "editor"),
    canViewAllConversations |-> hasRole(role, "admin"),
    canAccessSettings       |-> hasRole(role, "admin"),
    canManageBilling        |-> role = "super_admin" ]

\* Documents page: const canManageAccess = hasRole('admin')
canManageAccess(perm) == hasRole(perm.role, "admin")

\* ------------------------------------------------------------------ state
VARIABLES
  user_roles,          \* table user_roles: [Users -> RoleOrNull], UNIQUE (user_id)
  is_active,           \* profiles.is_active: [Users -> BOOLEAN]
  browser,             \* per browser: useAuth().user and the PermissionsProvider state
  folders,             \* table folders: [FolderIds -> row], NoFolder where no row
  folder_permissions,  \* table folder_permissions: set of <<folder_id, user_id>>
  documents,           \* table documents: [DocIds -> row], NoDoc where no row
  invitations,         \* table invitations: [InviteIds -> row], NoInvite where no row
  auth_users,          \* auth.users / profiles: the emails that own an account
  now,                 \* the clock, in days
  acceptPage,          \* per browser: the AcceptInvite page (token, invitation, error)
  submitting,          \* per browser: AcceptInvite.handleSubmit between its requests
  inviteDialog,        \* per browser: InviteUserDialog.handleSubmit between its requests
  accessDialog,        \* per browser: FolderAccessDialog.handleSave between its requests
  webhook,             \* the last request received by the external workflow
  lookups,             \* per browser: the users whose fetchRole lookup is in flight
  location,            \* per browser: the route displayed
  members,             \* per browser: the members list of the Team page
  saveBefore,          \* per browser: who could view the folder when handleSave began
  req                  \* the statement of the last step and who issued it

folderVars == <<folders, folder_permissions, documents>>
inviteVars == <<invitations, auth_users, now, acceptPage>>
callVars == <<submitting, inviteDialog, accessDialog>>
sideVars == <<webhook, lookups, location, members, saveBefore>>
vars == <<user_roles, is_active, browser, folders, folder_permissions, documents,
          invitations, auth_users, now, acceptPage, submitting, inviteDialog,
          accessDialog, webhook, lookups, location,
          members, saveBefore, req>>

\* folders.id IS NULL in documents.folder_id
NullFolder == 0
NoFolder == [user_id |-> Anon, created_by |-> Anon, access_level |-> "absent"]
NoDoc == [user_id |-> Anon, folder_id |-> NullFolder]
folderExists(f) == folders[f].access_level # "absent"
docExists(d) == documents[d].user_id # Anon

NoReq == [op |-> "none", actor |-> Anon]

\* accepted_at IS NULL
NullTime == -1
\* expires_at DEFAULT (now() + interval '7 days')
InviteTTL == 7
\* inviteSchema: role is one of admin, editor, reader
InviteRoles == {"admin", "editor", "reader"}
NoInvite == [email |-> Anon, role |-> NoRole, accepted_at |-> NullTime, expires_at |-> 0]
inviteExists(i) == i \in InviteIds /\ invitations[i].email # Anon
\* the row of id i was deleted; the id is not generated again
DeletedInvite == [email |-> Anon, role |-> NoRole, accepted_at |-> NullTime, expires_at |-> -1]
inviteRevoked(i) == i \in InviteIds /\ invitations[i] = DeletedInvite

\* AcceptInvite: useState<Invitation | null>(null), useState<string | null>(null); the
\* messages of setError are named after the failure they report
NoToken == 0
NoInvitation == [id |-> NoToken, email |-> Anon, role |-> NoRole]
InitAcceptPage ==
  [b \in Browsers |-> [token |-> NoToken, invitation |-> NoInvitation, error |-> "none"]]

\* no handler is between two requests: setSubmitting(false), setLoading(false),
\* setSaving(false)
InitSubmitting == [b \in Browsers |-> [pc |-> "idle", invitation |-> NoInvitation]]
InitInviteDialog == [b \in Browsers |-> [pc |-> "idle", email |-> Anon, role |-> NoRole]]
InitAccessDialog ==
  [b \in Browsers |-> [pc |-> "idle", folder |-> NullFolder, level |-> "team", sel |-> {}]]

\* useState(null), useState(true), and nobody signed in
InitBrowser == [b \in Browsers |-> [user |-> Anon, role |-> NoRole, loading |-> TRUE]]

\* usePermissions() in browser b
usePermissions(b) == PermissionsValue(browser[b].role, browser[b].loading)

\* ------------------------------------------------------- external workflow
\* the n8n webhooks: hook is the workflow called, user_id the identity the request
\* asserts, verified the identity auth.getUser() returned for the credentials of the
\* request when it came through a relay (Anon when no relay verified anything)
Hooks == {"chat", "upload", "delete"}
NoCall == [hook |-> "none", user_id |-> Anon, verified |-> Anon]
InitSideVars ==
  /\ webhook = NoCall
  /\ lookups = [b \in Browsers |-> {}]
  /\ location = [b \in Browsers |-> "/"]
  /\ members = [b \in Browsers |-> [u \in Users |-> "absent"]]
  /\ saveBefore = [b \in Browsers |-> {}]

\* the body the relays forward: user_id: user.id, user being the result of getUser()
Forwarded(hook, user) == [hook |-> hook, user_id |-> user, verified |-> user]

\* the response of n8n-chat serve: 401 without a verified user, 400 for a body without
\* text, otherwise the request is forwarded; the body's own user_id is not read
n8n_chat_status(caller, valid) ==
  IF caller = Anon THEN "401" ELSE IF ~valid THEN "400" ELSE "200"

\* n8n-upload serve: 401, 400 for missing fields or a file too large, 403 unless
\* file_path starts with the verified user's id (pathOwner is that prefix)
n8n_upload_status(caller, pathOwner, valid) ==
  IF caller = Anon THEN "401"
  ELSE IF ~valid THEN "400"
  ELSE IF pathOwner # caller THEN "403"
  ELSE "200"

\* n8n-delete serve: 401, 400 for missing fields, otherwise forwarded
n8n_delete_status(caller, valid) ==
  IF caller = Anon THEN "401" ELSE IF ~valid THEN "400" ELSE "200"

\* --------------------------------------------- SQL functions and policies
\* has_role(_user_id, _role): EXISTS row of user_roles with that user and role
has_role(uid, role) == uid \in Users /\ user_roles[uid] = role

SuperAdminsCanManageAllRoles_orAdmin(uid) ==
  has_role(uid, "super_admin") \/ has_role(uid, "admin")

\* policy "Super admins can manage all roles" ON user_roles FOR ALL
SuperAdminsCanManageAllRoles(uid) == has_role(uid, "super_admin")

\* ------------------------------------------------------- user_roles writes
\* UPDATE user_roles SET role = newRole WHERE user_id = target, as actor
user_roles_update(actor, target, newRole) ==
  IF SuperAdminsCanManageAllRoles(actor) /\ user_roles[target] # NoRole
  THEN [user_roles EXCEPT ![target] = newRole]
  ELSE user_roles

\* DELETE FROM user_roles WHERE user_id = target, as actor
user_roles_delete(actor, target) ==
  IF SuperAdminsCanManageAllRoles(actor)
  THEN [user_roles EXCEPT ![target] = NoRole]
  ELSE user_roles

\* INSERT INTO user_roles (user_id, role), as actor: the policy's USING expression
\* is the WITH CHECK of the insert, and UNIQUE (user_id) rejects a second row
user_roles_insert_ok(actor, target) ==
  SuperAdminsCanManageAllRoles(actor) /\ user_roles[target] = NoRole

user_roles_insert(actor, target, role) ==
  IF user_roles_insert_ok(actor, target)
  THEN [user_roles EXCEPT ![target] = role]
  ELSE user_roles

\* has_role_or_higher(_user_id, _min_role)
has_role_or_higher(uid, min_role) ==
  /\ uid \in Users
  /\ CASE min_role = "reader" ->
            user_roles[uid] \in {"reader", "editor", "admin", "super_admin"}
       [] min_role = "editor" -> user_roles[uid] \in {"editor", "admin", "super_admin"}
       [] min_role = "admin" -> user_roles[uid] \in {"admin", "super_admin"}
       [] min_role = "super_admin" -> user_roles[uid] = "super_admin"
       [] OTHER -> FALSE

UsersCanViewAccessibleFolders_adminSeesPrivate(uid, f) ==
  /\ folderExists(f)
  /\ \/ folders[f].user_id = uid
     \/ has_role(uid, "super_admin")
     \/ folders[f].access_level = "team"
     \/ (folders[f].access_level = "private"
           /\ (folders[f].created_by = uid \/ has_role(uid, "admin")))
     \/ (folders[f].access_level = "custom" /\ <<f, uid>> \in folder_permissions)

UsersCanViewAccessibleFolders_adminSeesCustom(uid, f) ==
  /\ folderExists(f)
  /\ \/ folders[f].user_id = uid
     \/ has_role(uid, "super_admin")
     \/ folders[f].access_level = "team"
     \/ (folders[f].access_level = "private" /\ folders[f].created_by = uid)
     \/ (folders[f].access_level = "custom" /\ has_role_or_higher(uid, "admin"))
     \/ (folders[f].access_level = "custom" /\ <<f, uid>> \in folder_permissions)

\* policy "Users can view accessible folders" ON folders FOR SELECT (the last
\* version created by the migrations), for the row of folder f and auth.uid() = uid
UsersCanViewAccessibleFolders(uid, f) ==
  /\ folderExists(f)
  /\ \/ folders[f].user_id = uid
     \/ has_role(uid, "super_admin")
     \/ folders[f].access_level = "team"
     \/ (folders[f].access_level = "private" /\ folders[f].created_by = uid)
     \/ (folders[f].access_level = "custom" /\ <<f, uid>> \in folder_permissions)

AdminsCanDeleteFolders_orEditor(uid) ==
  has_role(uid, "super_admin") \/ has_role(uid, "admin") \/ has_role(uid, "editor")

\* policy "Admins can delete folders" ON folders FOR DELETE
AdminsCanDeleteFolders(uid) ==
  has_role(uid, "super_admin") \/ has_role(uid, "admin")

\* policy "Admins can delete documents" ON documents FOR DELETE
AdminsCanDeleteDocuments(uid) ==
  has_role(uid, "super_admin") \/ has_role(uid, "admin")

\* policies ON folder_permissions FOR ALL
SuperAdminsCanManageFolderPermissions(uid) == has_role(uid, "super_admin")
AdminsCanManageFolderPermissions(uid) == has_role(uid, "admin")
\* the subquery on folders runs under the folders policies of the same user
FolderCreatorsCanManagePermissions(uid, f) ==
  /\ UsersCanViewAccessibleFolders(uid, f)
  /\ folders[f].created_by = uid

\* a write on folder_permissions rows of folder f passes when any FOR ALL policy does
folder_permissions_write_ok(uid, f) ==
  \/ SuperAdminsCanManageFolderPermissions(uid)
  \/ AdminsCanManageFolderPermissions(uid)
  \/ FolderCreatorsCanManagePermissions(uid, f)

\* policies of the first migrations, which are not among the sources: the insert and
\* update policies of folders and documents and the update policy of profiles follow
\* the capability table (create folders, upload, move: editor; access level: admin;
\* deactivate: super_admin)
FoldersInsertPolicy(uid, row) == row.user_id = uid /\ has_role_or_higher(uid, "editor")
FoldersUpdatePolicy(uid, f) == has_role_or_higher(uid, "admin")
DocumentsInsertPolicy(uid, row) == row.user_id = uid /\ has_role_or_higher(uid, "editor")
DocumentsUpdatePolicy(uid, d) == documents[d].user_id = uid /\ has_role_or_higher(uid, "editor")
ProfilesUpdatePolicy(uid, target) == has_role(uid, "super_admin")

\* ---------------------------------------------------- folder statements
\* INSERT INTO folders (name, user_id, created_by): access_level defaults to 'team'
folders_insert(actor, f, row) ==
  IF ~folderExists(f) /\ FoldersInsertPolicy(actor, row)
  THEN [folders EXCEPT ![f] = row]
  ELSE folders

\* UPDATE folders SET access_level = level WHERE id = f: rows the actor can select
\* and may update
folders_update_access(actor, f, level) ==
  IF UsersCanViewAccessibleFolders(actor, f) /\ FoldersUpdatePolicy(actor, f)
  THEN [folders EXCEPT ![f].access_level = level]
  ELSE folders

\* DELETE FROM folders WHERE id = f: rows the actor can select and may delete
folders_delete_ok(actor, f) ==
  UsersCanViewAccessibleFolders(actor, f) /\ AdminsCanDeleteFolders(actor)

\* DELETE FROM folder_permissions WHERE folder_id = f
folder_permissions_delete(actor, f) ==
  IF folder_permissions_write_ok(actor, f)
  THEN {p \in folder_permissions : p[1] # f}
  ELSE folder_permissions

\* INSERT INTO folder_permissions (folder_id, user_id) for every selected user: one
\* statement, rejected as a whole by the policy check, the foreign key or
\* UNIQUE (folder_id, user_id)
folder_permissions_insert_ok(actor, f, grants, sel) ==
  /\ folderExists(f)
  /\ folder_permissions_write_ok(actor, f)
  /\ \A u \in sel : <<f, u>> \notin grants

DeleteFolderRow_noCascade(f) ==
  /\ folders' = [folders EXCEPT ![f] = NoFolder]
  /\ folder_permissions' = folder_permissions
  /\ documents' = [d \in DocIds |->
        IF documents[d].folder_id = f
        THEN [documents[d] EXCEPT !.folder_id = NullFolder]
        ELSE documents[d]]

\* the folder's row is deleted: ON DELETE CASCADE on folder_permissions.folder_id,
\* ON DELETE SET NULL on documents.folder_id
DeleteFolderRow(f) ==
  /\ folders' = [folders EXCEPT ![f] = NoFolder]
  /\ folder_permissions' = {p \in folder_permissions : p[1] # f}
  /\ documents' = [d \in DocIds |->
        IF documents[d].folder_id = f
        THEN [documents[d] EXCEPT !.folder_id = NullFolder]
        ELSE documents[d]]

\* ------------------------------------------------- session and role loading
\* useAuth(): the signed-in identity of browser b changes
signIn(b, u) ==
  /\ u \in auth_users /\ browser[b].user # u
  /\ browser' = [browser EXCEPT ![b].user = u]
  /\ UNCHANGED sideVars
  /\ req' = NoReq
  /\ UNCHANGED <<inviteVars, callVars>>
  /\ UNCHANGED <<user_roles, is_active, folderVars>>

signOut(b) ==
  /\ browser[b].user # Anon
  /\ browser' = [browser EXCEPT ![b].user = Anon]
  /\ UNCHANGED sideVars
  /\ req' = NoReq
  /\ UNCHANGED <<inviteVars, callVars>>
  /\ UNCHANGED <<user_roles, is_active, folderVars>>

\* PermissionsProvider.fetchRole; failed = the lookup returned an error
fetchRole(b, failed) ==
  /\ browser' = [browser EXCEPT
        ![b].role = IF browser[b].user = Anon \/ failed THEN NoRole
                    ELSE user_roles[browser[b].user],
        ![b].loading = FALSE]
  /\ UNCHANGED sideVars
  /\ req' = NoReq
  /\ UNCHANGED <<inviteVars, callVars>>
  /\ UNCHANGED <<user_roles, is_active, folderVars>>

\* --------------------------------------------------------------- Team page
\* Team.handleChangeRole: the page is shown once permissions are loaded and
\* canManageUsers holds; the row menu is offered for other, non super_admin members;
\* the role selector offers admin, editor, reader
handleChangeRole(b, target, newRole) ==
  /\ ~usePermissions(b).loading /\ usePermissions(b).canManageUsers
  /\ target # browser[b].user /\ user_roles[target] # "super_admin"
  /\ newRole \in {"admin", "editor", "reader"}
  /\ user_roles' = user_roles_update(browser[b].user, target, newRole)
  /\ UNCHANGED sideVars
  /\ req' = [op |-> "user_roles.update", actor |-> browser[b].user]
  /\ UNCHANGED <<inviteVars, callVars>>
  /\ UNCHANGED <<is_active, browser, folderVars>>

\* the same statements sent to the data API without the client
ApiUpdateUserRole(actor, target, newRole) ==
  /\ user_roles' = user_roles_update(actor, target, newRole)
  /\ UNCHANGED sideVars
  /\ req' = [op |-> "user_roles.update", actor |-> actor]
  /\ UNCHANGED <<inviteVars, callVars>>
  /\ UNCHANGED <<is_active, browser, folderVars>>

ApiDeleteUserRole(actor, target) ==
  /\ user_roles' = user_roles_delete(actor, target)
  /\ UNCHANGED sideVars
  /\ req' = [op |-> "user_roles.delete", actor |-> actor]
  /\ UNCHANGED <<inviteVars, callVars>>
  /\ UNCHANGED <<is_active, browser, folderVars>>

ApiInsertUserRole(actor, target, role) ==
  /\ user_roles' = user_roles_insert(actor, target, role)
  /\ UNCHANGED sideVars
  /\ req' = [op |-> "user_roles.insert", actor |-> actor]
  /\ UNCHANGED <<inviteVars, callVars>>
  /\ UNCHANGED <<is_active, browser, folderVars>>

\* ---------------------------------------------------------- Documents page
\* policy "Users can view profiles based on role" ON profiles FOR SELECT
UsersCanViewProfilesBasedOnRole(uid, p) ==
  uid = p \/ has_role(uid, "super_admin") \/ has_role(uid, "admin")

\* SELECT on folder_permissions: the FOR ALL policies and "Users can view own folder
\* permissions"
folder_permissions_select_ok(uid, f, u) ==
  folder_permissions_write_ok(uid, f) \/ u = uid

\* Documents.handleCreateFolder, the button being rendered when canCreateFolders
handleCreateFolder(b, f) ==
  /\ browser[b].user # Anon /\ usePermissions(b).canCreateFolders
  /\ ~folderExists(f)
  /\ folders' = folders_insert(browser[b].user, f,
        [user_id |-> browser[b].user, created_by |-> browser[b].user,
         access_level |-> "team"])
  /\ UNCHANGED sideVars
  /\ req' = NoReq
  /\ UNCHANGED <<inviteVars, callVars>>
  /\ UNCHANGED <<user_roles, is_active, browser, folder_permissions, documents>>

\* FolderAccessDialog.fetchData: the users listed and the selection loaded
dialogUsers(uid) == {p \in Users : is_active[p] /\ UsersCanViewProfilesBasedOnRole(uid, p)}
dialogFetched(uid, f) ==
  IF folders[f].access_level = "custom"
  THEN {u \in Users : <<f, u>> \in folder_permissions
                        /\ folder_permissions_select_ok(uid, f, u)}
  ELSE {}

\* the grants after the second part of handleSave, from the grants g before it;
\* failAt names the call that returns an error, if any
handleSaveGrants(actor, f, level, sel, failAt) ==
  LET deleted == IF failAt = "delete" THEN folder_permissions
                 ELSE folder_permissions_delete(actor, f)
  IN  IF level = "custom" /\ sel # {} /\ failAt # "insert"
         /\ folder_permissions_insert_ok(actor, f, deleted, sel)
      THEN deleted \cup {<<f, u>> : u \in sel}
      ELSE deleted

\* FolderAccessDialog opened from a folder card (canManageAccess) and saved with the
\* access level and the users selected: update folders, then delete and insert
\* folder_permissions.  An error of the update ends the handler; the creator's and the
\* roles' policies on folder_permissions do not depend on the access level just set.
handleSave(b, f, level, sel, failAt) ==
  LET actor == browser[b].user IN
  /\ actor # Anon /\ canManageAccess(usePermissions(b))
  /\ UsersCanViewAccessibleFolders(actor, f)
  /\ sel \subseteq (dialogUsers(actor) \cup dialogFetched(actor, f))
  /\ (dialogFetched(actor, f) \ dialogUsers(actor)) \subseteq sel
  /\ IF failAt = "update"
     THEN UNCHANGED <<folders, folder_permissions>>
     ELSE /\ folders' = folders_update_access(actor, f, level)
          /\ folder_permissions' = handleSaveGrants(actor, f, level, sel, failAt)
  /\ UNCHANGED sideVars
  /\ req' = [op |-> "handleSave", actor |-> actor]
  /\ UNCHANGED <<inviteVars, callVars>>
  /\ UNCHANGED <<user_roles, is_active, browser, documents>>

\* Documents.handleDeleteFolder, offered on the folders listed when canDeleteFolders
handleDeleteFolder(b, f) ==
  /\ usePermissions(b).canDeleteFolders
  /\ UsersCanViewAccessibleFolders(browser[b].user, f)
  /\ IF folders_delete_ok(browser[b].user, f)
     THEN DeleteFolderRow(f)
     ELSE UNCHANGED folderVars
  /\ UNCHANGED sideVars
  /\ req' = [op |-> "folders.delete", actor |-> browser[b].user]
  /\ UNCHANGED <<inviteVars, callVars>>
  /\ UNCHANGED <<user_roles, is_active, browser>>

\* UploadButton.handleFileSelect, rendered when canUploadDocuments: the documents row,
\* then, unless the insert returned an error, functions.invoke('n8n-upload') with the
\* session's credentials and file_path = user.id/...
handleFileSelect(b, d) ==
  /\ browser[b].user # Anon /\ usePermissions(b).canUploadDocuments
  /\ ~docExists(d)
  /\ documents' =
        IF DocumentsInsertPolicy(browser[b].user,
                                 [user_id |-> browser[b].user, folder_id |-> NullFolder])
        THEN [documents EXCEPT ![d] =
                 [user_id |-> browser[b].user, folder_id |-> NullFolder]]
        ELSE documents
  /\ UNCHANGED <<lookups, location, members, saveBefore>>
  /\ webhook' =
        IF /\ DocumentsInsertPolicy(browser[b].user,
                                    [user_id |-> browser[b].user, folder_id |-> NullFolder])
           /\ n8n_upload_status(browser[b].user, browser[b].user, TRUE) = "200"
        THEN Forwarded("upload", browser[b].user)
        ELSE webhook
  /\ req' = NoReq
  /\ UNCHANGED <<inviteVars, callVars>>
  /\ UNCHANGED <<user_roles, is_active, browser, folders, folder_permissions>>

\* Documents.handleMoveDocument: one of the user's documents, moved to a listed
\* folder or to the root
handleMoveDocument(b, d, target) ==
  /\ usePermissions(b).canRenameDocuments
  /\ docExists(d) /\ documents[d].user_id = browser[b].user
  /\ target \in {NullFolder}
                  \cup {f \in FolderIds : UsersCanViewAccessibleFolders(browser[b].user, f)}
  /\ documents' =
        IF DocumentsUpdatePolicy(browser[b].user, d)
        THEN [documents EXCEPT ![d].folder_id = target]
        ELSE documents
  /\ UNCHANGED sideVars
  /\ req' = NoReq
  /\ UNCHANGED <<inviteVars, callVars>>
  /\ UNCHANGED <<user_roles, is_active, browser, folders, folder_permissions>>

\* Documents.handleDeleteDocument, offered on the user's documents when
\* canDeleteDocuments: functions.invoke('n8n-delete') with the session's credentials,
\* then the documents delete
handleDeleteDocument(b, d) ==
  /\ usePermissions(b).canDeleteDocuments
  /\ docExists(d) /\ documents[d].user_id = browser[b].user
  /\ documents' =
        IF AdminsCanDeleteDocuments(browser[b].user)
        THEN [documents EXCEPT ![d] = NoDoc]
        ELSE documents
  /\ UNCHANGED <<lookups, location, members, saveBefore>>
  /\ webhook' = IF n8n_delete_status(browser[b].user, TRUE) = "200"
                THEN Forwarded("delete", browser[b].user)
                ELSE webhook
  /\ req' = [op |-> "documents.delete", actor |-> browser[b].user]
  /\ UNCHANGED <<inviteVars, callVars>>
  /\ UNCHANGED <<user_roles, is_active, browser, folders, folder_permissions>>

\* the same statements sent to the data API without the client
ApiInsertGrant(actor, f, u) ==
  /\ folder_permissions' =
        IF folder_permissions_insert_ok(actor, f, folder_permissions, {u})
        THEN folder_permissions \cup {<<f, u>>}
        ELSE folder_permissions
  /\ UNCHANGED sideVars
  /\ req' = [op |-> "folder_permissions.insert", actor |-> actor]
  /\ UNCHANGED <<inviteVars, callVars>>
  /\ UNCHANGED <<user_roles, is_active, browser, folders, documents>>

ApiDeleteGrant(actor, f, u) ==
  /\ folder_permissions' =
        IF folder_permissions_write_ok(actor, f)
        THEN folder_permissions \ {<<f, u>>}
        ELSE folder_permissions
  /\ UNCHANGED sideVars
  /\ req' = [op |-> "folder_permissions.delete", actor |-> actor]
  /\ UNCHANGED <<inviteVars, callVars>>
  /\ UNCHANGED <<user_roles, is_active, browser, folders, documents>>

ApiDeleteFolder(actor, f) ==
  /\ IF folders_delete_ok(actor, f)
     THEN DeleteFolderRow(f)
     ELSE UNCHANGED folderVars
  /\ UNCHANGED sideVars
  /\ req' = [op |-> "folders.delete", actor |-> actor]
  /\ UNCHANGED <<inviteVars, callVars>>
  /\ UNCHANGED <<user_roles, is_active, browser>>

ApiDeleteDocument(actor, d) ==
  /\ documents' =
        IF docExists(d) /\ AdminsCanDeleteDocuments(actor)
        THEN [documents EXCEPT ![d] = NoDoc]
        ELSE documents
  /\ UNCHANGED sideVars
  /\ req' = [op |-> "documents.delete", actor |-> actor]
  /\ UNCHANGED <<inviteVars, callVars>>
  /\ UNCHANGED <<user_roles, is_active, browser, folders, folder_permissions>>

\* Team.handleToggleActive, from the row menu of another, non super_admin member
handleToggleActive(b, target) ==
  /\ ~usePermissions(b).loading /\ usePermissions(b).canManageUsers
  /\ target # browser[b].user /\ user_roles[target] # "super_admin"
  /\ is_active' =
        IF ProfilesUpdatePolicy(browser[b].user, target)
        THEN [is_active EXCEPT ![target] = ~is_active[target]]
        ELSE is_active
  /\ UNCHANGED sideVars
  /\ req' = NoReq
  /\ UNCHANGED <<inviteVars, callVars>>
  /\ UNCHANGED <<user_roles, browser, folderVars>>

\* ------------------------------------------------------------ invitations
\* policy "Super admins can manage invitations" ON invitations FOR ALL; the policy
\* "Anyone can view invitation by token for accepting" lets every request select
SuperAdminsCanManageInvitations(uid) == has_role(uid, "super_admin")

\* the clock advances
Tick ==
  /\ now < MaxNow
  /\ now' = now + 1
  /\ UNCHANGED sideVars
  /\ req' = NoReq
  /\ UNCHANGED <<user_roles, is_active, browser, folderVars, invitations, auth_users,
                 acceptPage, callVars>>

\* the invitations not yet accepted for an email (.eq('email').is('accepted_at', null))
pendingInvites(email) ==
  {i \in InviteIds : inviteExists(i) /\ invitations[i].email = email
                        /\ invitations[i].accepted_at = NullTime}

\* ids are generated, a new row takes the next one
unusedInvites == {i \in InviteIds : invitations[i] = NoInvite}
nextInvite == CHOOSE i \in unusedInvites : \A j \in unusedInvites : i <= j

\* InviteUserDialog.handleSubmit, the dialog being opened from the Team page: the
\* profile lookup, the pending-invitation lookup (maybeSingle yields no row when
\* several match) and the insert, rejected unless the policy passes
InviteUserDialog_handleSubmit(b, email, role) ==
  LET actor == browser[b].user
      existingProfile == email \in auth_users /\ UsersCanViewProfilesBasedOnRole(actor, email)
      existingInvite == Cardinality(pendingInvites(email)) = 1
  IN  /\ ~usePermissions(b).loading /\ usePermissions(b).canManageUsers
      /\ role \in InviteRoles
      /\ unusedInvites # {}
      /\ invitations' =
            IF ~existingProfile /\ ~existingInvite /\ SuperAdminsCanManageInvitations(actor)
            THEN [invitations EXCEPT ![nextInvite] =
                     [email |-> email, role |-> role, accepted_at |-> NullTime,
                      expires_at |-> now + InviteTTL]]
            ELSE invitations
      /\ UNCHANGED sideVars
      /\ req' = [op |-> "invitations.insert", actor |-> actor]
      /\ UNCHANGED <<user_roles, is_active, browser, folderVars, auth_users, now,
                     acceptPage, callVars>>

fetchInvitationResult_expiredAtDeadline(token, failed) ==
  IF failed \/ ~inviteExists(token)
  THEN [token |-> token, invitation |-> NoInvitation, error |-> "NotFound"]
  ELSE IF invitations[token].accepted_at # NullTime
  THEN [token |-> token, invitation |-> NoInvitation, error |-> "AlreadyAccepted"]
  ELSE IF invitations[token].expires_at <= now
  THEN [token |-> token, invitation |-> NoInvitation, error |-> "Expired"]
  ELSE [token |-> token, error |-> "none",
        invitation |-> [id |-> token, email |-> invitations[token].email,
                        role |-> invitations[token].role]]

\* AcceptInvite.fetchInvitation for the token of the link: the page state it leaves.
\* 'Invitation introuvable ou invalide' is NotFound, 'déjà été utilisée' is
\* AlreadyAccepted, 'a expiré' is Expired; failed = the lookup returned an error
fetchInvitationResult(token, failed) ==
  IF failed \/ ~inviteExists(token)
  THEN [token |-> token, invitation |-> NoInvitation, error |-> "NotFound"]
  ELSE IF invitations[token].accepted_at # NullTime
  THEN [token |-> token, invitation |-> NoInvitation, error |-> "AlreadyAccepted"]
  ELSE IF invitations[token].expires_at < now
  THEN [token |-> token, invitation |-> NoInvitation, error |-> "Expired"]
  ELSE [token |-> token, error |-> "none",
        invitation |-> [id |-> token, email |-> invitations[token].email,
                        role |-> invitations[token].role]]

\* the AcceptInvite page is opened in browser b with ?token=
fetchInvitation(b, token, failed) ==
  /\ acceptPage' = [acceptPage EXCEPT ![b] = fetchInvitationResult(token, failed)]
  /\ UNCHANGED sideVars
  /\ req' = [op |-> IF failed THEN "fetchInvitation.error" ELSE "fetchInvitation",
             actor |-> b]
  /\ UNCHANGED <<user_roles, is_active, browser, folderVars, invitations, auth_users, now,
                 callVars>>

\* AcceptInvite.handleSubmit with a valid form.  signUp creates the account unless the
\* email is registered; session = signUp returned a session (the requests that follow
\* carry the new user's identity), otherwise they carry the browser's session.  Then
\* the user_roles insert, whose error ends the handler, then the accepted_at update,
\* whose result is not read, then navigate('/auth').  failAt names the call that
\* returns a communication error, if any.
AcceptInvite_handleSubmit(b, session, failAt) ==
  LET inv == acceptPage[b].invitation
      email == inv.email
      signedUp == failAt # "signUp" /\ email \notin auth_users
      actor == IF session THEN email ELSE browser[b].user
      roleOk == signedUp /\ failAt # "insert" /\ user_roles_insert_ok(actor, email)
      stampOk == /\ roleOk /\ failAt # "update"
                 /\ inviteExists(inv.id) /\ SuperAdminsCanManageInvitations(actor)
  IN  /\ inv # NoInvitation
      /\ auth_users' = IF signedUp THEN auth_users \cup {email} ELSE auth_users
      /\ browser' = IF signedUp /\ session
                    THEN [browser EXCEPT ![b].user = email]
                    ELSE browser
      /\ user_roles' = IF roleOk THEN user_roles_insert(actor, email, inv.role)
                       ELSE user_roles
      /\ invitations' = IF stampOk
                        THEN [invitations EXCEPT ![inv.id].accepted_at = now]
                        ELSE invitations
      /\ acceptPage' = IF roleOk
                       THEN [acceptPage EXCEPT ![b] = InitAcceptPage[b]]
                       ELSE acceptPage
      /\ UNCHANGED sideVars
      /\ req' = [op |-> IF failAt = "none" THEN "accept" ELSE "accept.error",
                 actor |-> b]
      /\ UNCHANGED <<is_active, folderVars, now, callVars>>

user_roles_insert_ok_noUnique(actor, target) ==
  SuperAdminsCanManageAllRoles(actor)

\* INSERT INTO user_roles issued by AcceptInvite.handleSubmit for the user signUp returned
accept_insert_ok(actor, target) == user_roles_insert_ok(actor, target)

\* AcceptInvite.handleSubmit request by request, for calls running at the same time.
\* First supabase.auth.signUp: a new email gets an account; for a registered email the
\* call returns an error, or (reuse, no session) the user of the not yet confirmed
\* account.  The requests that follow carry the browser's session.
handleSubmit_signUp(b, session, reuse, failed) ==
  LET inv == acceptPage[b].invitation
      created == ~failed /\ inv.email \notin auth_users
      returned == created \/ (~failed /\ inv.email \in auth_users /\ ~session /\ reuse)
  IN  /\ inv # NoInvitation
      /\ submitting[b].pc \in {"idle", "failed"}
      /\ auth_users' = IF created THEN auth_users \cup {inv.email} ELSE auth_users
      /\ browser' = IF created /\ session
                    THEN [browser EXCEPT ![b].user = inv.email]
                    ELSE browser
      /\ submitting' = [submitting EXCEPT ![b] =
            [pc |-> IF returned THEN "insert" ELSE "failed", invitation |-> inv]]
      /\ UNCHANGED sideVars
      /\ req' = [op |-> "signUp", actor |-> b]
      /\ UNCHANGED <<user_roles, is_active, folderVars, invitations, now, acceptPage,
                     inviteDialog, accessDialog>>

\* then the user_roles insert; its error ends the handler in the catch block
handleSubmit_insertRole(b, failed) ==
  LET inv == submitting[b].invitation
      ok == ~failed /\ accept_insert_ok(browser[b].user, inv.email)
  IN  /\ submitting[b].pc = "insert"
      /\ user_roles' = IF ok THEN [user_roles EXCEPT ![inv.email] = inv.role]
                       ELSE user_roles
      /\ submitting' = [submitting EXCEPT ![b].pc = IF ok THEN "update" ELSE "failed"]
      /\ UNCHANGED sideVars
      /\ req' = [op |-> "user_roles.insert", actor |-> browser[b].user]
      /\ UNCHANGED <<is_active, browser, folderVars, inviteVars, inviteDialog,
                     accessDialog>>

\* then the accepted_at update, whose result is not read, the toast 'Compte créé' and
\* navigate('/auth')
handleSubmit_stamp(b, failed) ==
  LET inv == submitting[b].invitation
      ok == /\ ~failed /\ inviteExists(inv.id)
            /\ SuperAdminsCanManageInvitations(browser[b].user)
  IN  /\ submitting[b].pc = "update"
      /\ invitations' = IF ok THEN [invitations EXCEPT ![inv.id].accepted_at = now]
                        ELSE invitations
      /\ submitting' = [submitting EXCEPT ![b].pc = "done"]
      /\ acceptPage' = [acceptPage EXCEPT ![b] = InitAcceptPage[b]]
      /\ UNCHANGED sideVars
      /\ req' = [op |-> "invitations.update", actor |-> browser[b].user]
      /\ UNCHANGED <<user_roles, is_active, browser, folderVars, auth_users, now,
                     inviteDialog, accessDialog>>

pendingInvites_acceptedOnly(email) ==
  {i \in InviteIds : inviteExists(i) /\ invitations[i].email = email
                        /\ invitations[i].accepted_at # NullTime}

\* the rows returned to the dialog's pending-invitation lookup
dialogPendingInvites(email) == pendingInvites(email)

\* InviteUserDialog.handleSubmit request by request.  First the profile lookup for the
\* email and role typed in the form; 'Cet email est déjà enregistré' ends the handler
InviteUserDialog_checkProfile(b, email, role) ==
  LET existingProfile ==
        email \in auth_users /\ UsersCanViewProfilesBasedOnRole(browser[b].user, email)
  IN  /\ ~usePermissions(b).loading /\ usePermissions(b).canManageUsers
      /\ role \in InviteRoles
      /\ inviteDialog[b].pc = "idle"
      /\ inviteDialog' = [inviteDialog EXCEPT ![b] =
            [pc |-> IF existingProfile THEN "idle" ELSE "invite",
             email |-> email, role |-> role]]
      /\ UNCHANGED sideVars
      /\ req' = [op |-> "invite.checkProfile", actor |-> b]
      /\ UNCHANGED <<user_roles, is_active, browser, folderVars, inviteVars, submitting,
                     accessDialog>>

\* then the pending-invitation lookup (maybeSingle: a row only when exactly one
\* matches); 'Une invitation est déjà en attente pour cet email' ends the handler
InviteUserDialog_checkInvite(b) ==
  LET existingInvite == Cardinality(dialogPendingInvites(inviteDialog[b].email)) = 1
  IN  /\ inviteDialog[b].pc = "invite"
      /\ inviteDialog' = [inviteDialog EXCEPT
            ![b].pc = IF existingInvite THEN "idle" ELSE "insert"]
      /\ UNCHANGED sideVars
      /\ req' = [op |-> "invite.checkInvite", actor |-> b]
      /\ UNCHANGED <<user_roles, is_active, browser, folderVars, inviteVars, submitting,
                     accessDialog>>

\* then the insert, as the browser's session
InviteUserDialog_insert(b) ==
  /\ inviteDialog[b].pc = "insert"
  /\ unusedInvites # {}
  /\ invitations' =
        IF SuperAdminsCanManageInvitations(browser[b].user)
        THEN [invitations EXCEPT ![nextInvite] =
                 [email |-> inviteDialog[b].email, role |-> inviteDialog[b].role,
                  accepted_at |-> NullTime, expires_at |-> now + InviteTTL]]
        ELSE invitations
  /\ inviteDialog' = [inviteDialog EXCEPT ![b].pc = "idle"]
  /\ UNCHANGED sideVars
  /\ req' = [op |-> "invitations.insert", actor |-> browser[b].user]
  /\ UNCHANGED <<user_roles, is_active, browser, folderVars, auth_users, now, acceptPage,
                 submitting, accessDialog>>

\* DELETE FROM invitations WHERE id = i, as actor: the rows the FOR ALL policy passes
invitations_delete_ok(actor, i) ==
  inviteExists(i) /\ SuperAdminsCanManageInvitations(actor)

\* Team.handleDeleteInvitation, from the list of invitations of the Team page
handleDeleteInvitation(b, i) ==
  /\ ~usePermissions(b).loading /\ usePermissions(b).canManageUsers
  /\ inviteExists(i)
  /\ invitations' = IF invitations_delete_ok(browser[b].user, i)
                    THEN [invitations EXCEPT ![i] = DeletedInvite]
                    ELSE invitations
  /\ UNCHANGED sideVars
  /\ req' = [op |-> "invitations.delete", actor |-> browser[b].user]
  /\ UNCHANGED <<user_roles, is_active, browser, folderVars, auth_users, now, acceptPage,
                 callVars>>

\* the same statements sent to the data API without the client
ApiDeleteInvitation(actor, i) ==
  /\ invitations' = IF invitations_delete_ok(actor, i)
                    THEN [invitations EXCEPT ![i] = DeletedInvite]
                    ELSE invitations
  /\ UNCHANGED sideVars
  /\ req' = [op |-> "invitations.delete", actor |-> actor]
  /\ UNCHANGED <<user_roles, is_active, browser, folderVars, auth_users, now, acceptPage,
                 callVars>>

\* INSERT INTO invitations (email, role): role is any app_role, the table has no
\* check on it
ApiInsertInvitation(actor, email, role) ==
  /\ unusedInvites # {}
  /\ invitations' =
        IF SuperAdminsCanManageInvitations(actor)
        THEN [invitations EXCEPT ![nextInvite] =
                 [email |-> email, role |-> role, accepted_at |-> NullTime,
                  expires_at |-> now + InviteTTL]]
        ELSE invitations
  /\ UNCHANGED sideVars
  /\ req' = [op |-> "invitations.insert", actor |-> actor]
  /\ UNCHANGED <<user_roles, is_active, browser, folderVars, auth_users, now, acceptPage,
                 callVars>>

\* ------------------------------------------ handleSave request by request
\* the users the SELECT policy of folders lets see folder f
viewersOf(f) == {u \in Users : UsersCanViewAccessibleFolders(u, f)}

\* FolderAccessDialog.handleSave, first request: the folders update with the level and
\* the users selected in the dialog; its error ends the handler
handleSave_update(b, f, level, sel, failed) ==
  LET actor == browser[b].user IN
  /\ actor # Anon /\ canManageAccess(usePermissions(b))
  /\ UsersCanViewAccessibleFolders(actor, f)
  /\ sel \subseteq (dialogUsers(actor) \cup dialogFetched(actor, f))
  /\ (dialogFetched(actor, f) \ dialogUsers(actor)) \subseteq sel
  /\ accessDialog[b].pc = "idle"
  /\ folders' = IF failed THEN folders ELSE folders_update_access(actor, f, level)
  /\ accessDialog' = [accessDialog EXCEPT ![b] =
        [pc |-> IF failed THEN "idle" ELSE "delete",
         folder |-> f, level |-> level, sel |-> sel]]
  /\ saveBefore' = [saveBefore EXCEPT ![b] = viewersOf(f)]
  /\ UNCHANGED <<webhook, lookups, location, members>>
  /\ req' = [op |-> "handleSave.update", actor |-> actor]
  /\ UNCHANGED <<user_roles, is_active, browser, folder_permissions, documents,
                 inviteVars, submitting, inviteDialog>>

\* second request: the delete of the folder's grants, whose error is not read
handleSave_delete(b, failed) ==
  LET d == accessDialog[b] IN
  /\ d.pc = "delete"
  /\ folder_permissions' = IF failed THEN folder_permissions
                           ELSE folder_permissions_delete(browser[b].user, d.folder)
  /\ accessDialog' = [accessDialog EXCEPT
        ![b].pc = IF d.level = "custom" /\ d.sel # {} THEN "insert" ELSE "idle"]
  /\ UNCHANGED sideVars
  /\ req' = [op |-> "handleSave.delete", actor |-> browser[b].user]
  /\ UNCHANGED <<user_roles, is_active, browser, folders, documents, inviteVars,
                 submitting, inviteDialog>>

\* third request, for custom with users selected: the insert of the grants
handleSave_insert(b, failed) ==
  LET d == accessDialog[b] IN
  /\ d.pc = "insert"
  /\ folder_permissions' =
        IF ~failed /\ folder_permissions_insert_ok(browser[b].user, d.folder,
                                                    folder_permissions, d.sel)
        THEN folder_permissions \cup {<<d.folder, u>> : u \in d.sel}
        ELSE folder_permissions
  /\ accessDialog' = [accessDialog EXCEPT ![b].pc = "idle"]
  /\ UNCHANGED sideVars
  /\ req' = [op |-> "handleSave.insert", actor |-> browser[b].user]
  /\ UNCHANGED <<user_roles, is_active, browser, folders, documents, inviteVars,
                 submitting, inviteDialog>>

\* documents.folder_id references folders(id): declared with the documents table
DocumentsFolderFk(target) == target = NullFolder \/ folderExists(target)

\* UPDATE documents SET folder_id = target WHERE id = d, as actor: the statement of
\* handleMoveDocument sent with a folder id that was listed earlier
ApiMoveDocument(actor, d, target) ==
  /\ documents' =
        IF docExists(d) /\ DocumentsUpdatePolicy(actor, d) /\ DocumentsFolderFk(target)
        THEN [documents EXCEPT ![d].folder_id = target]
        ELSE documents
  /\ UNCHANGED sideVars
  /\ req' = [op |-> "documents.update", actor |-> actor]
  /\ UNCHANGED <<user_roles, is_active, browser, folders, folder_permissions,
                 inviteVars, callVars>>

\* ----------------------------------------------- specification: folders
SaveFailures == {"none", "update", "delete", "insert"}

\* the accounts of the scenario: a super_admin, an admin or editor, and an editor,
\* reader or account without role
InitFolders ==
  /\ user_roles \in {r \in [Users -> RoleOrNull] :
        /\ r["u1"] = "super_admin"
        /\ r["u2"] \in {"admin", "editor"}
        /\ r["u3"] \in {"editor", "reader", NoRole}}
  /\ is_active = [u \in Users |-> TRUE]
  /\ browser = InitBrowser
  /\ folders = [f \in FolderIds |-> NoFolder]
  /\ folder_permissions = {}
  /\ documents = [d \in DocIds |-> NoDoc]
  /\ req = NoReq
  /\ invitations = [i \in InviteIds |-> NoInvite]
  /\ auth_users = Users
  /\ now = 0
  /\ acceptPage = InitAcceptPage
  /\ submitting = InitSubmitting
  /\ inviteDialog = InitInviteDialog
  /\ accessDialog = InitAccessDialog
  /\ InitSideVars

NextFolders ==
  \/ \E u \in Users : signIn("b1", u)
  \/ signOut("b1")
  \/ \E failed \in BOOLEAN : fetchRole("b1", failed)
  \/ \E f \in FolderIds : handleCreateFolder("b1", f)
  \/ \E f \in FolderIds, level \in AccessLevels, sel \in SUBSET Users,
        failAt \in SaveFailures : handleSave("b1", f, level, sel, failAt)
  \/ \E a \in Actors, f \in FolderIds, u \in Users : ApiInsertGrant(a, f, u)
  \/ \E a \in Actors, f \in FolderIds, u \in Users : ApiDeleteGrant(a, f, u)

SpecFolders == InitFolders /\ [][NextFolders]_vars

\* -------------------------------------- specification: folder and document deletion
NextDelete ==
  \/ \E u \in Users : signIn("b1", u)
  \/ \E failed \in BOOLEAN : fetchRole("b1", failed)
  \/ \E f \in FolderIds : handleCreateFolder("b1", f)
  \/ \E f \in FolderIds, level \in AccessLevels, sel \in SUBSET Users :
        handleSave("b1", f, level, sel, "none")
  \/ \E d \in DocIds : handleFileSelect("b1", d)
  \/ \E d \in DocIds, t \in FolderIds \cup {NullFolder} : handleMoveDocument("b1", d, t)
  \/ \E f \in FolderIds : handleDeleteFolder("b1", f)
  \/ \E d \in DocIds : handleDeleteDocument("b1", d)
  \/ \E a \in Actors, f \in FolderIds : ApiDeleteFolder(a, f)
  \/ \E a \in Actors, d \in DocIds : ApiDeleteDocument(a, d)

SpecDelete == InitFolders /\ [][NextDelete]_vars

\* ------------------------------- specification: accounts, roles and visibility
InitAccess ==
  /\ user_roles = [u \in Users |->
        CASE u = "u1" -> "super_admin" [] u = "u2" -> "admin" [] OTHER -> NoRole]
  /\ is_active = [u \in Users |-> TRUE]
  /\ browser = InitBrowser
  /\ folders = [f \in FolderIds |-> NoFolder]
  /\ folder_permissions = {}
  /\ documents = [d \in DocIds |-> NoDoc]
  /\ req = NoReq
  /\ invitations = [i \in InviteIds |-> NoInvite]
  /\ auth_users = Users
  /\ now = 0
  /\ acceptPage = InitAcceptPage
  /\ submitting = InitSubmitting
  /\ inviteDialog = InitInviteDialog
  /\ accessDialog = InitAccessDialog
  /\ InitSideVars

NextAccess ==
  \/ \E u \in Users : signIn("b1", u)
  \/ \E failed \in BOOLEAN : fetchRole("b1", failed)
  \/ \E t \in Users, r \in AppRoles : handleChangeRole("b1", t, r)
  \/ \E t \in Users : handleToggleActive("b1", t)
  \/ \E f \in FolderIds : handleCreateFolder("b1", f)
  \/ \E f \in FolderIds, level \in AccessLevels, sel \in SUBSET Users :
        handleSave("b1", f, level, sel, "none")

SpecAccess == InitAccess /\ [][NextAccess]_vars

\* ------------------------------------------------- specification: roles
InitPerm ==
  /\ user_roles \in [Users -> RoleOrNull]
  /\ is_active = [u \in Users |-> TRUE]
  /\ browser = InitBrowser
  /\ folders = [f \in FolderIds |-> NoFolder]
  /\ folder_permissions = {}
  /\ documents = [d \in DocIds |-> NoDoc]
  /\ req = NoReq
  /\ invitations = [i \in InviteIds |-> NoInvite]
  /\ auth_users = Users
  /\ now = 0
  /\ acceptPage = InitAcceptPage
  /\ submitting = InitSubmitting
  /\ inviteDialog = InitInviteDialog
  /\ accessDialog = InitAccessDialog
  /\ InitSideVars

NextPerm ==
  \/ \E u \in Users : signIn("b1", u)
  \/ signOut("b1")
  \/ \E failed \in BOOLEAN : fetchRole("b1", failed)
  \/ \E t \in Users, r \in AppRoles : handleChangeRole("b1", t, r)
  \/ \E a \in Actors, t \in Users, r \in AppRoles : ApiUpdateUserRole(a, t, r)
  \/ \E a \in Actors, t \in Users : ApiDeleteUserRole(a, t)
  \/ \E a \in Actors, t \in Users, r \in AppRoles : ApiInsertUserRole(a, t, r)

SpecPerm == InitPerm /\ [][NextPerm]_vars

\* ------------------------------------------- specification: invitations
AcceptFailures == {"none", "signUp", "insert", "update"}

\* one super_admin account; the other emails own no account
InitInvite ==
  /\ user_roles = [u \in Users |-> IF u = "u1" THEN "super_admin" ELSE NoRole]
  /\ is_active = [u \in Users |-> TRUE]
  /\ browser = InitBrowser
  /\ folders = [f \in FolderIds |-> NoFolder]
  /\ folder_permissions = {}
  /\ documents = [d \in DocIds |-> NoDoc]
  /\ req = NoReq
  /\ invitations = [i \in InviteIds |-> NoInvite]
  /\ auth_users = {"u1"}
  /\ now = 0
  /\ acceptPage = InitAcceptPage
  /\ submitting = InitSubmitting
  /\ inviteDialog = InitInviteDialog
  /\ accessDialog = InitAccessDialog
  /\ InitSideVars

NextInvite ==
  \/ Tick
  \/ \E u \in Users : signIn("b1", u)
  \/ signOut("b1")
  \/ fetchRole("b1", FALSE)
  \/ \E e \in {"u1", "u2"}, r \in InviteRoles : InviteUserDialog_handleSubmit("b1", e, r)
  \/ \E t \in InviteIds, failed \in BOOLEAN : fetchInvitation("b1", t, failed)
  \/ \E session \in BOOLEAN, failAt \in AcceptFailures :
        AcceptInvite_handleSubmit("b1", session, failAt)

SpecInvite == InitInvite /\ [][NextInvite]_vars

\* ------------------------------- specification: accept calls at the same time
\* one super_admin account, whose session both browsers can carry
NextAcceptRace ==
  \/ \E b \in Browsers : signIn(b, "u1")
  \/ fetchRole("b1", FALSE)
  \/ \E r \in {"editor", "reader"} : InviteUserDialog_handleSubmit("b1", "u2", r)
  \/ \E b \in Browsers, t \in InviteIds : fetchInvitation(b, t, FALSE)
  \/ \E b \in Browsers, session \in BOOLEAN, reuse \in BOOLEAN, failed \in BOOLEAN :
        handleSubmit_signUp(b, session, reuse, failed)
  \/ \E b \in Browsers, failed \in BOOLEAN : handleSubmit_insertRole(b, failed)
  \/ \E b \in Browsers, failed \in BOOLEAN : handleSubmit_stamp(b, failed)

SpecAcceptRace == InitInvite /\ [][NextAcceptRace]_vars

\* --------------------------------- specification: creating invitations
\* one manager, one call of InviteUserDialog.handleSubmit at a time, the clock running
NextCreate ==
  \/ Tick
  \/ signIn("b1", "u1")
  \/ fetchRole("b1", FALSE)
  \/ \E e \in {"u1", "u2"}, r \in InviteRoles : InviteUserDialog_checkProfile("b1", e, r)
  \/ InviteUserDialog_checkInvite("b1")
  \/ InviteUserDialog_insert("b1")

SpecCreate == InitInvite /\ [][NextCreate]_vars

\* ------------------- specification: two managers creating invitations
InitCreateRace ==
  /\ user_roles = [u \in Users |-> IF u \in {"u1", "u2"} THEN "super_admin" ELSE NoRole]
  /\ is_active = [u \in Users |-> TRUE]
  /\ browser = InitBrowser
  /\ folders = [f \in FolderIds |-> NoFolder]
  /\ folder_permissions = {}
  /\ documents = [d \in DocIds |-> NoDoc]
  /\ req = NoReq
  /\ invitations = [i \in InviteIds |-> NoInvite]
  /\ auth_users = {"u1", "u2"}
  /\ now = 0
  /\ acceptPage = InitAcceptPage
  /\ submitting = InitSubmitting
  /\ inviteDialog = InitInviteDialog
  /\ accessDialog = InitAccessDialog
  /\ InitSideVars

NextCreateRace ==
  \/ signIn("b1", "u1")
  \/ signIn("b2", "u2")
  \/ \E b \in Browsers : fetchRole(b, FALSE)
  \/ \E b \in Browsers, e \in {"u2", "u3"}, r \in {"editor", "reader"} :
        InviteUserDialog_checkProfile(b, e, r)
  \/ \E b \in Browsers : InviteUserDialog_checkInvite(b)
  \/ \E b \in Browsers : InviteUserDialog_insert(b)

SpecCreateRace == InitCreateRace /\ [][NextCreateRace]_vars

\* ------------- specification: invitations, the data API and revocation
NextInviteApi ==
  \/ \E u \in Users : signIn("b1", u)
  \/ fetchRole("b1", FALSE)
  \/ \E r \in InviteRoles : InviteUserDialog_handleSubmit("b1", "u2", r)
  \/ \E a \in Actors, r \in AppRoles : ApiInsertInvitation(a, "u3", r)
  \/ \E i \in InviteIds : handleDeleteInvitation("b1", i)
  \/ \E a \in Actors, i \in InviteIds : ApiDeleteInvitation(a, i)
  \/ \E t \in InviteIds : fetchInvitation("b1", t, FALSE)
  \/ \E session \in BOOLEAN : AcceptInvite_handleSubmit("b1", session, "none")

SpecInviteApi == InitInvite /\ [][NextInviteApi]_vars

\* ---------- specification: folder deletion against saves and document moves
\* browser b1 is the admin's, browser b2 the super_admin's
NextIntegrity ==
  \/ signIn("b1", "u2")
  \/ signIn("b2", "u1")
  \/ \E b \in Browsers : fetchRole(b, FALSE)
  \/ \E f \in FolderIds : handleCreateFolder("b1", f)
  \/ \E f \in FolderIds, level \in AccessLevels, sel \in SUBSET {"u3"} :
        handleSave_update("b1", f, level, sel, FALSE)
  \/ \E failed \in BOOLEAN : handleSave_delete("b1", failed)
  \/ handleSave_insert("b1", FALSE)
  \/ \E d \in DocIds : handleFileSelect("b1", d)
  \/ \E d \in DocIds, t \in FolderIds \cup {NullFolder} : ApiMoveDocument("u2", d, t)
  \/ \E f \in FolderIds : handleDeleteFolder("b2", f)

SpecIntegrity == InitAccess /\ [][NextIntegrity]_vars

\* ------------------------------------------------------ claims: capabilities
\* position of a role in reader < editor < admin < super_admin, 0 for no role
SpecRank(r) ==
  CASE r = "reader" -> 1
    [] r = "editor" -> 2
    [] r = "admin" -> 3
    [] r = "super_admin" -> 4
    [] OTHER -> 0

\* C1: for each of the four roles and for no role, the capabilities exposed by
\* PermissionsProvider (and canManageAccess of the Documents page) are exactly the
\* capability table: manage users and manage billing only for super_admin; view users,
\* delete folders, manage grants, delete documents, view all conversations and settings
\* iff role >= admin; create/rename folders, upload, rename documents and export iff
\* role >= editor; use chat iff a role is present; with no role everything is false.
C1_CapabilityTable ==
  \A b \in Browsers :
    LET p == usePermissions(b)
        k == SpecRank(browser[b].role)
    IN  /\ p.canManageUsers = (k = 4)
        /\ p.canManageBilling = (k = 4)
        /\ p.canViewUsers = (k >= 3)
        /\ p.canDeleteFolders = (k >= 3)
        /\ canManageAccess(p) = (k >= 3)
        /\ p.canDeleteDocuments = (k >= 3)
        /\ p.canViewAllConversations = (k >= 3)
        /\ p.canAccessSettings = (k >= 3)
        /\ p.canCreateFolders = (k >= 2)
        /\ p.canRenameFolders = (k >= 2)
        /\ p.canUploadDocuments = (k >= 2)
        /\ p.canRenameDocuments = (k >= 2)
        /\ p.canExportConversations = (k >= 2)
        /\ p.canUseChat = (k >= 1)

\* a browser has loaded the role editor: it may upload and create folders, not delete
C1_Witness ==
  \E b \in Browsers :
    /\ ~browser[b].loading /\ browser[b].role = "editor"
    /\ usePermissions(b).canUploadDocuments /\ ~usePermissions(b).canDeleteFolders

\* the capabilities that are thresholds on the hierarchy
MonotoneCaps(p) ==
  << p.canViewUsers, p.canCreateFolders, p.canDeleteFolders, p.canRenameFolders,
     p.canUploadDocuments, p.canDeleteDocuments, p.canRenameDocuments, p.canUseChat,
     p.canExportConversations, p.canViewAllConversations, p.canAccessSettings,
     canManageAccess(p) >>

\* C2: for roles R1 < R2 (R1 the role a browser has loaded, R2 any higher role) every
\* capability granted to R1 is granted to R2, except manage users and manage billing,
\* which are false for every role other than super_admin.
C2_Monotone ==
  \A b \in Browsers :
    LET r1 == browser[b].role
        p1 == usePermissions(b)
    IN  /\ \A r2 \in AppRoles :
              (r1 \in AppRoles /\ SpecRank(r1) < SpecRank(r2)) =>
                 \A i \in 1..Len(MonotoneCaps(p1)) :
                    MonotoneCaps(p1)[i] => MonotoneCaps(PermissionsValue(r2, FALSE))[i]
        /\ (r1 # "super_admin") => (~p1.canManageUsers /\ ~p1.canManageBilling)

\* a browser has loaded editor, whose capability to create folders admin keeps
C2_Witness ==
  \E b \in Browsers :
    /\ ~browser[b].loading /\ browser[b].role = "editor"
    /\ usePermissions(b).canCreateFolders
    /\ PermissionsValue("admin", FALSE).canCreateFolders

\* ---------------------------------------------------------- claims: folders
\* C4: a private folder is visible to a user only if the user is its creator or holds
\* super_admin, and it is visible to every super_admin; so for a private folder created
\* by an editor, an admin other than the creator does not see it and a super_admin does.
C4_PrivateCreatorOrSuperAdmin ==
  \A f \in FolderIds :
    folders[f].access_level = "private" =>
      \A u \in Actors :
        /\ UsersCanViewAccessibleFolders(u, f)
              => (u = folders[f].created_by \/ (u \in Users /\ user_roles[u] = "super_admin"))
        /\ (u \in Users /\ user_roles[u] = "super_admin")
              => UsersCanViewAccessibleFolders(u, f)

\* a private folder created by an editor, hidden from an admin, shown to a super_admin
C4_Witness ==
  \E f \in FolderIds, a \in Users, adm \in Users, sa \in Users :
    /\ folders[f].access_level = "private" /\ folders[f].created_by = a
    /\ user_roles[a] = "editor"
    /\ adm # a /\ user_roles[adm] = "admin" /\ ~UsersCanViewAccessibleFolders(adm, f)
    /\ user_roles[sa] = "super_admin" /\ UsersCanViewAccessibleFolders(sa, f)

\* C5: a custom folder is visible to exactly its creator, the holders of super_admin
\* and the users with a row in folder_permissions for it, after any sequence of folder
\* creations, access-level changes and grant edits.
C5_CustomExactlyGranted ==
  \A f \in FolderIds :
    folders[f].access_level = "custom" =>
      \A u \in Actors :
        UsersCanViewAccessibleFolders(u, f)
          <=> \/ u = folders[f].created_by
              \/ (u \in Users /\ user_roles[u] = "super_admin")
              \/ <<f, u>> \in folder_permissions

\* a custom folder seen by a grantee that is neither creator nor super_admin, and not
\* seen by another user
C5_Witness ==
  \E f \in FolderIds, g \in Users, n \in Users :
    /\ folders[f].access_level = "custom"
    /\ g # n /\ g # folders[f].created_by /\ user_roles[g] # "super_admin"
    /\ <<f, g>> \in folder_permissions
    /\ UsersCanViewAccessibleFolders(g, f)
    /\ ~UsersCanViewAccessibleFolders(n, f)

GrantWrites == {"folder_permissions.insert", "folder_permissions.delete", "handleSave"}

\* C6: managing folder grants is gated by role >= admin at the data store: a write on
\* folder_permissions attempted by an actor whose role is editor, reader or none leaves
\* the grants unchanged, also when the actor created the folder.
C6_GrantWritesNeedAdmin ==
  [][ (req'.op \in GrantWrites /\ ~has_role_or_higher(req'.actor, "admin"))
         => folder_permissions' = folder_permissions ]_vars

\* the role of an actor in user_roles, null for a request without session
roleOf(a) == IF a \in Users THEN user_roles[a] ELSE NoRole

AllCapsFalse(p) ==
  /\ ~p.canManageUsers /\ ~p.canViewUsers /\ ~p.canCreateFolders /\ ~p.canDeleteFolders
  /\ ~p.canRenameFolders /\ ~p.canUploadDocuments /\ ~p.canDeleteDocuments
  /\ ~p.canRenameDocuments /\ ~p.canUseChat /\ ~p.canExportConversations
  /\ ~p.canViewAllConversations /\ ~p.canAccessSettings /\ ~p.canManageBilling
  /\ ~canManageAccess(p)

\* C3: for every user without role record or with is_active = false, the
\* capabilities resolved for that user (a browser signed in as the user whose
\* fetchRole has loaded the stored role) are all false, and no folder of any access
\* level passes the folders SELECT policy for that user.
C3_NoRoleOrInactiveDenied ==
  \A u \in Users :
    (user_roles[u] = NoRole \/ ~is_active[u]) =>
      /\ \A b \in Browsers :
            (browser[b].user = u /\ ~browser[b].loading
               /\ browser[b].role = user_roles[u]) => AllCapsFalse(usePermissions(b))
      /\ \A f \in FolderIds : ~UsersCanViewAccessibleFolders(u, f)

DeleteWrites == {"folders.delete", "documents.delete"}

\* C8: the delete policies of folders and documents permit exactly the roles for which
\* canDeleteFolders / canDeleteDocuments is true (role >= admin, false without role),
\* and a delete sent by any other actor, without the client check, leaves folders,
\* grants and documents unchanged.
C8_DeletePolicyMatchesCapability ==
  /\ [](\A a \in Actors :
          /\ AdminsCanDeleteFolders(a) = PermissionsValue(roleOf(a), FALSE).canDeleteFolders
          /\ AdminsCanDeleteDocuments(a)
                = PermissionsValue(roleOf(a), FALSE).canDeleteDocuments)
  /\ [][ /\ (req'.op = "folders.delete"
               /\ ~PermissionsValue(roleOf(req'.actor), FALSE).canDeleteFolders)
              => UNCHANGED folderVars
         /\ (req'.op = "documents.delete"
               /\ ~PermissionsValue(roleOf(req'.actor), FALSE).canDeleteDocuments)
              => UNCHANGED folderVars ]_vars

\* an editor has just sent a folder delete; the folder, a grant on it and a document
\* in it are still there
C8_Witness ==
  /\ req.op = "folders.delete" /\ roleOf(req.actor) = "editor"
  /\ \E f \in FolderIds, u \in Users, d \in DocIds :
        /\ folderExists(f) /\ <<f, u>> \in folder_permissions
        /\ documents[d].folder_id = f

\* ------------------------------------------------------------ claims: roles
RoleWrites == {"user_roles.update", "user_roles.delete", "user_roles.insert"}

\* C7: a role record changes only in a step whose acting user holds super_admin; a
\* role write attempted by an actor that is admin, editor, reader or has no role, on
\* any account, leaves every role record unchanged.
C7_RolesMutableOnlyBySuperAdmin ==
  [][ /\ (req'.op \in RoleWrites /\ ~has_role(req'.actor, "super_admin"))
           => user_roles' = user_roles
      /\ (user_roles' # user_roles)
           => (req'.op \in RoleWrites /\ has_role(req'.actor, "super_admin")) ]_vars

\* an admin has just attempted to update a role while another admin account exists
C7_Witness ==
  /\ req.op = "user_roles.update"
  /\ req.actor \in Users /\ user_roles[req.actor] = "admin"
  /\ \E t \in Users \ {req.actor} : user_roles[t] = "admin"

\* ------------------------------------------------------ claims: invitations
\* C9: resolving a token (AcceptInvite.fetchInvitation, the lookup answering) reports
\* NotFound when no invitation has the token, AlreadyAccepted when accepted_at is set,
\* Expired when now > expires_at and accepted_at is null, and otherwise succeeds with
\* the invitation's email and role; with now = expires_at it still succeeds.
C9_ResolveOutcomes ==
  [][ req'.op = "fetchInvitation" =>
        LET p == acceptPage'[req'.actor]
            t == p.token
        IN  /\ ~inviteExists(t) => (p.error = "NotFound" /\ p.invitation = NoInvitation)
            /\ inviteExists(t) =>
                 LET row == invitations[t] IN
                 /\ row.accepted_at # NullTime
                      => (p.error = "AlreadyAccepted" /\ p.invitation = NoInvitation)
                 /\ (row.accepted_at = NullTime /\ now > row.expires_at)
                      => (p.error = "Expired" /\ p.invitation = NoInvitation)
                 /\ (row.accepted_at = NullTime /\ now <= row.expires_at)
                      => /\ p.error = "none"
                         /\ p.invitation.id = t
                         /\ p.invitation.email = row.email
                         /\ p.invitation.role = row.role ]_vars

\* an invitation has just been resolved at the very time it expires
C9_Witness ==
  /\ req.op = "fetchInvitation"
  /\ LET p == acceptPage[req.actor] IN
       /\ p.error = "none" /\ inviteExists(p.token)
       /\ invitations[p.token].accepted_at = NullTime
       /\ now = invitations[p.token].expires_at
       /\ p.invitation.email = invitations[p.token].email

\* C10: accepting a pending, unexpired invitation whose email owns no account (the
\* calls answering without communication error) leaves an account for the email whose
\* role is the invitation's role and stamps accepted_at, so that every later resolve
\* of the token reports AlreadyAccepted.
C10_AcceptCreatesAccountAndStamps ==
  [][ req'.op = "accept" =>
        LET inv == acceptPage[req'.actor].invitation IN
          (/\ inviteExists(inv.id)
           /\ invitations[inv.id].accepted_at = NullTime
           /\ now <= invitations[inv.id].expires_at
           /\ inv.email \notin auth_users)
          => /\ inv.email \in auth_users'
             /\ user_roles'[inv.email] = inv.role
             /\ invitations'[inv.id].accepted_at # NullTime ]_vars

\* C11: accept re-validates the resolve conditions when the form is submitted: if the
\* invitation shown by the form has since expired, been accepted or been deleted, the
\* submission creates no account.
C11_AcceptRevalidates ==
  [][ req'.op \in {"accept", "accept.error"} =>
        LET inv == acceptPage[req'.actor].invitation IN
          (\/ ~inviteExists(inv.id)
           \/ invitations[inv.id].accepted_at # NullTime
           \/ now > invitations[inv.id].expires_at)
          => auth_users' = auth_users ]_vars

\* C13: acceptance is atomic: every account that owns the email of an invitation has
\* the invitation's role record and the invitation is stamped, in every reachable
\* state, also after a failing role insert or accepted_at update.
C13_AcceptAtomic ==
  \A i \in InviteIds :
    (inviteExists(i) /\ invitations[i].email \in auth_users)
      => /\ user_roles[invitations[i].email] = invitations[i].role
         /\ invitations[i].accepted_at # NullTime

\* a call of handleSubmit in browser b for invitation i has succeeded: its role insert
\* returned without error, so the call shows 'Compte créé'
acceptSucceeded(b, i) ==
  submitting[b].pc \in {"update", "done"} /\ submitting[b].invitation.id = i

\* C12: for calls of accept on the same token running at the same time, at most one
\* call succeeds, the account of the email has the invitation's role, and the other
\* call ends with a failure.
C12_OneAcceptSucceeds ==
  \A i \in InviteIds :
    /\ Cardinality({b \in Browsers : acceptSucceeded(b, i)}) <= 1
    /\ (\E b \in Browsers : acceptSucceeded(b, i))
          => /\ invitations[i].email \in auth_users
             /\ user_roles[invitations[i].email] = invitations[i].role

\* both browsers submitted the same invitation; one succeeded, the other got the user
\* back from signUp and failed
C12_Witness ==
  \E i \in InviteIds :
    /\ acceptSucceeded("b1", i) /\ submitting["b1"].pc = "done"
    /\ submitting["b2"].pc = "failed" /\ submitting["b2"].invitation.id = i
    /\ req.op = "user_roles.insert" /\ browser["b2"].user = "u1"

\* the invitations for an email that are neither accepted nor expired
pendingUnexpired(email) ==
  {i \in InviteIds : inviteExists(i) /\ invitations[i].email = email
                        /\ invitations[i].accepted_at = NullTime
                        /\ now <= invitations[i].expires_at}

C15_OnePendingPerEmail ==
  \A e \in Users : Cardinality(pendingUnexpired(e)) <= 1

\* C16: expired invitations do not count toward the duplicate check: when no account
\* owns the email and every invitation for it is expired, the pending-invitation
\* lookup of create lets the call go on to the insert, and the manager's insert adds
\* the row.
C16_ExpiredInvitesDoNotBlock ==
  [][ \A b \in Browsers :
        LET form == inviteDialog'[b]
            allExpired == \A i \in InviteIds :
                 (inviteExists(i) /\ invitations[i].email = form.email)
                   => (invitations[i].accepted_at = NullTime
                         /\ now > invitations[i].expires_at)
        IN  /\ (req' = [op |-> "invite.checkInvite", actor |-> b]
                  /\ form.email \notin auth_users /\ allExpired)
                 => form.pc = "insert"
            /\ (inviteDialog[b].pc = "insert" /\ form.pc = "idle"
                  /\ has_role(browser[b].user, "super_admin"))
                 => invitations' # invitations ]_vars

\* C17: super_admin is never assignable via an invitation: no invitation has the
\* intended role super_admin, and no accept call writes a super_admin role record.
C17_NoSuperAdminInvitation ==
  /\ [](\A i \in InviteIds : invitations[i].role # "super_admin")
  /\ [][ req'.op \in {"accept", "accept.error"} =>
           \A u \in Users :
              user_roles'[u] = "super_admin" => user_roles[u] = "super_admin" ]_vars

\* C18: revoke is permitted only to holders of manage users (a delete by anyone else
\* removes nothing), and a revoked invitation's token is invalid for good: a resolve
\* of it reports NotFound, and an accept of it creates no account, also when the form
\* was displayed before the revocation.
C18_RevokedTokenInvalid ==
  [][ /\ (req'.op = "invitations.delete" /\ ~has_role(req'.actor, "super_admin"))
           => invitations' = invitations
      /\ \A i \in InviteIds : inviteRevoked(i) => inviteRevoked(i)'
      /\ (req'.op = "fetchInvitation" /\ inviteRevoked(acceptPage'[req'.actor].token))
           => acceptPage'[req'.actor].error = "NotFound"
      /\ (req'.op \in {"accept", "accept.error"}
            /\ inviteRevoked(acceptPage[req'.actor].invitation.id))
           => auth_users' = auth_users ]_vars

grantsOf(f) == {p \in folder_permissions : p[1] = f}

\* C20: when a custom folder with grants is saved as team or private, the grants stay
\* stored (inert), and when the folder is saved back as custom without the grants
\* being specified again, the stored grants are active again: their users can view
\* the folder.
C20_StoredGrantsReactivated ==
  [][ req'.op = "handleSave" =>
        \A f \in FolderIds :
          /\ (folders[f].access_level = "custom"
                /\ folders'[f].access_level \in {"team", "private"})
               => grantsOf(f)' = grantsOf(f)
          /\ (folders[f].access_level \in {"team", "private"}
                /\ folders'[f].access_level = "custom"
                /\ grantsOf(f)' = grantsOf(f))
               => \A p \in grantsOf(f) : UsersCanViewAccessibleFolders(p[2], f)' ]_vars

\* ------------------------------------------------- relays to the workflow
\* POST to the n8n-chat function with the credentials of caller (Anon: none or not
\* valid) and a body whose user_id field is claimed
n8n_chat(caller, claimed, valid) ==
  /\ webhook' = IF n8n_chat_status(caller, valid) = "200"
                THEN Forwarded("chat", caller)
                ELSE webhook
  /\ req' = [op |-> "n8n-chat." \o n8n_chat_status(caller, valid), actor |-> caller]
  /\ UNCHANGED <<user_roles, is_active, browser, folderVars, inviteVars, callVars, lookups, location,
                 members, saveBefore>>

\* POST to the n8n-upload function; pathOwner is the user id file_path starts with
n8n_upload(caller, pathOwner, valid) ==
  /\ webhook' = IF n8n_upload_status(caller, pathOwner, valid) = "200"
                THEN Forwarded("upload", caller)
                ELSE webhook
  /\ req' = [op |-> "n8n-upload." \o n8n_upload_status(caller, pathOwner, valid),
             actor |-> caller]
  /\ UNCHANGED <<user_roles, is_active, browser, folderVars, inviteVars, callVars, lookups, location,
                 members, saveBefore>>

\* POST to the n8n-delete function
n8n_delete(caller, valid) ==
  /\ webhook' = IF n8n_delete_status(caller, valid) = "200"
                THEN Forwarded("delete", caller)
                ELSE webhook
  /\ req' = [op |-> "n8n-delete." \o n8n_delete_status(caller, valid), actor |-> caller]
  /\ UNCHANGED <<user_roles, is_active, browser, folderVars, inviteVars, callVars, lookups, location,
                 members, saveBefore>>

\* Chat.handleSend: the page posts to the chat webhook itself, user_id being user.id
\* of useAuth(); no relay and no credentials are involved
Chat_handleSend(b) ==
  /\ browser[b].user # Anon
  /\ webhook' = [hook |-> "chat", user_id |-> browser[b].user, verified |-> Anon]
  /\ req' = [op |-> "Chat.handleSend", actor |-> browser[b].user]
  /\ UNCHANGED <<user_roles, is_active, browser, folderVars, inviteVars, callVars, lookups, location,
                 members, saveBefore>>

\* ------------------------------------------------ specification: relays
\* an admin, an editor and a reader
InitRelay ==
  /\ user_roles = [u \in Users |->
        CASE u = "u1" -> "admin" [] u = "u2" -> "editor" [] OTHER -> "reader"]
  /\ is_active = [u \in Users |-> TRUE]
  /\ browser = InitBrowser
  /\ folders = [f \in FolderIds |-> NoFolder]
  /\ folder_permissions = {}
  /\ documents = [d \in DocIds |-> NoDoc]
  /\ req = NoReq
  /\ invitations = [i \in InviteIds |-> NoInvite]
  /\ auth_users = Users
  /\ now = 0
  /\ acceptPage = InitAcceptPage
  /\ submitting = InitSubmitting
  /\ inviteDialog = InitInviteDialog
  /\ accessDialog = InitAccessDialog
  /\ InitSideVars

NextRelay ==
  \/ \E u \in Users : signIn("b1", u)
  \/ signOut("b1")
  \/ fetchRole("b1", FALSE)
  \/ \E d \in DocIds : handleFileSelect("b1", d)
  \/ \E d \in DocIds : handleDeleteDocument("b1", d)
  \/ Chat_handleSend("b1")
  \/ \E a \in Actors, claimed \in Users, valid \in BOOLEAN : n8n_chat(a, claimed, valid)
  \/ \E a \in Actors, o \in Users, valid \in BOOLEAN : n8n_upload(a, o, valid)
  \/ \E a \in Actors, valid \in BOOLEAN : n8n_delete(a, valid)

SpecRelay == InitRelay /\ [][NextRelay]_vars

\* C21: every request the external workflow receives asserts the identity that was
\* verified from the caller's credentials: it came through a relay (an identity was
\* verified) and its user_id is that identity.
C21_AssertedIdentityVerified ==
  webhook.hook # "none" =>
     (webhook.verified # Anon /\ webhook.user_id = webhook.verified)

\* C22: a relay answers 200, that is forwards the request, only after a capability
\* check: upload for a caller whose role is >= editor, delete for a caller whose role
\* is >= admin.
C22_ForwardNeedsCapability ==
  [][ /\ (req'.op = "n8n-upload.200" => has_role_or_higher(req'.actor, "editor"))
      /\ (req'.op = "n8n-delete.200" => has_role_or_higher(req'.actor, "admin")) ]_vars

\* ------------------------------------- PermissionsProvider, call by call
\* useAuth() has not delivered the first session yet: loading is still the initial
\* true and no lookup was started
authLoading(b) ==
  browser[b].loading /\ browser[b].user = Anon /\ lookups[b] = {}

fetchRoleResult_keepOnError(prev, stored, failed) == IF failed THEN prev ELSE stored

\* the value fetchRole gives setRole once the lookup has returned: null in the catch
\* block, data?.role || null otherwise (stored is the row's role, NoRole without row)
fetchRoleResult(prev, stored, failed) == IF failed THEN NoRole ELSE stored

\* the effect of the Settings page, run after every render in which the context value
\* has changed: navigate('/dashboard') when loading is over, canAccessSettings is
\* false and role is not null.  The route displayed afterwards.
Settings_useEffect(path, p) ==
  IF path = "/settings" /\ ~p.loading /\ ~p.canAccessSettings /\ p.role # NoRole
  THEN "/dashboard"
  ELSE path

\* Sidebar: the hrefs of the navItems whose show is true
Sidebar_visibleItems(p) ==
  {"/dashboard", "/documents", "/chat"}
     \cup (IF p.canManageUsers THEN {"/team"} ELSE {})
     \cup (IF p.canAccessSettings THEN {"/settings"} ELSE {})

\* the user of useAuth() becomes u (the first session, a sign-in or a sign-out): the
\* provider renders with the new fetchRole and the effect calls it.  Without user it
\* sets role null and loading false at once; otherwise the lookup for u starts, role
\* and loading staying as they are until it returns.  The pages render again.
PermissionsProvider_useEffect(b, u) ==
  /\ u \in auth_users \cup {Anon}
  /\ \/ authLoading(b)
     \/ (u = Anon /\ browser[b].user # Anon)
     \/ (u # Anon /\ browser[b].user = Anon)
  /\ browser' = [browser EXCEPT
        ![b] = IF u = Anon
               THEN [user |-> Anon, role |-> NoRole, loading |-> FALSE]
               ELSE [user |-> u, role |-> browser[b].role, loading |-> browser[b].loading]]
  /\ lookups' = IF u = Anon THEN lookups ELSE [lookups EXCEPT ![b] = @ \cup {u}]
  /\ location' = [location EXCEPT
        ![b] = Settings_useEffect(@, PermissionsValue(browser'[b].role, browser'[b].loading))]
  /\ req' = [op |-> "useAuth", actor |-> b]
  /\ UNCHANGED <<user_roles, is_active, folderVars, inviteVars, callVars, webhook, members,
                 saveBefore>>

\* the lookup fetchRole started for u returns: setRole, then setLoading(false) in the
\* finally block; failed = the lookup returned an error
fetchRole_await(b, u, failed) ==
  /\ u \in lookups[b]
  /\ browser' = [browser EXCEPT
        ![b].role = fetchRoleResult(browser[b].role, user_roles[u], failed),
        ![b].loading = FALSE]
  /\ lookups' = [lookups EXCEPT ![b] = @ \ {u}]
  /\ location' = [location EXCEPT
        ![b] = Settings_useEffect(@, PermissionsValue(browser'[b].role, browser'[b].loading))]
  /\ req' = [op |-> IF failed THEN "fetchRole.error" ELSE "fetchRole", actor |-> b]
  /\ UNCHANGED <<user_roles, is_active, folderVars, inviteVars, callVars, webhook, members,
                 saveBefore>>

\* ------------------------------------- specification: role refresh (fair)
\* a super_admin, an editor and a reader
InitRefresh ==
  /\ user_roles = [u \in Users |->
        CASE u = "u1" -> "super_admin" [] u = "u2" -> "editor" [] OTHER -> "reader"]
  /\ is_active = [u \in Users |-> TRUE]
  /\ browser = InitBrowser
  /\ folders = [f \in FolderIds |-> NoFolder]
  /\ folder_permissions = {}
  /\ documents = [d \in DocIds |-> NoDoc]
  /\ req = NoReq
  /\ invitations = [i \in InviteIds |-> NoInvite]
  /\ auth_users = Users
  /\ now = 0
  /\ acceptPage = InitAcceptPage
  /\ submitting = InitSubmitting
  /\ inviteDialog = InitInviteDialog
  /\ accessDialog = InitAccessDialog
  /\ InitSideVars

\* the super_admin uses the Team page in b1, the others sign in and out in b2
NextRefresh ==
  \/ PermissionsProvider_useEffect("b1", "u1")
  \/ \E u \in {"u2", "u3", Anon} : PermissionsProvider_useEffect("b2", u)
  \/ \E b \in Browsers, u \in Users : fetchRole_await(b, u, FALSE)
  \/ \E t \in Users, r \in AppRoles : handleChangeRole("b1", t, r)

\* a lookup that was started returns
SpecRefresh ==
  /\ InitRefresh /\ [][NextRefresh]_vars
  /\ \A b \in Browsers, u \in Users : WF_vars(fetchRole_await(b, u, FALSE))

\* C23: while u stays signed in at a browser and u's stored role stays r, the browser
\* eventually exposes the capabilities of r, whether r was stored before the sign-in
\* or by a later role change.
C23_CapabilitiesRecomputed ==
  \A b \in Browsers, u \in Users, r \in AppRoles :
     (browser[b].user = u /\ user_roles[u] = r)
        ~> \/ browser[b].user # u
           \/ user_roles[u] # r
           \/ usePermissions(b) = PermissionsValue(r, FALSE)

\* -------------------------------------- specification: loading the role
\* a super_admin, a reader and an account without role
InitLoad ==
  /\ user_roles = [u \in Users |->
        CASE u = "u1" -> "super_admin" [] u = "u2" -> "reader" [] OTHER -> NoRole]
  /\ is_active = [u \in Users |-> TRUE]
  /\ browser = InitBrowser
  /\ folders = [f \in FolderIds |-> NoFolder]
  /\ folder_permissions = {}
  /\ documents = [d \in DocIds |-> NoDoc]
  /\ req = NoReq
  /\ invitations = [i \in InviteIds |-> NoInvite]
  /\ auth_users = Users
  /\ now = 0
  /\ acceptPage = InitAcceptPage
  /\ submitting = InitSubmitting
  /\ inviteDialog = InitInviteDialog
  /\ accessDialog = InitAccessDialog
  /\ InitSideVars

NextLoad ==
  \/ \E b \in Browsers, u \in Actors : PermissionsProvider_useEffect(b, u)
  \/ \E b \in Browsers, u \in Users, failed \in BOOLEAN : fetchRole_await(b, u, failed)

SpecLoad == InitLoad /\ [][NextLoad]_vars

\* every named boolean of the context value is false
NoCapability(p) ==
  /\ ~p.canManageUsers /\ ~p.canViewUsers /\ ~p.canManageBilling
  /\ ~p.canCreateFolders /\ ~p.canDeleteFolders /\ ~p.canRenameFolders
  /\ ~p.canUploadDocuments /\ ~p.canDeleteDocuments /\ ~p.canRenameDocuments
  /\ ~p.canUseChat /\ ~p.canExportConversations /\ ~p.canViewAllConversations
  /\ ~p.canAccessSettings /\ ~canManageAccess(p)

\* C24: when the role lookup returns an error or no row, fetchRole ends normally with
\* the exposed role none, every capability false and loading false.
C24_LoadFailsClosed ==
  [][ \A b \in Browsers :
        (\/ req' = [op |-> "fetchRole.error", actor |-> b]
         \/ /\ req' = [op |-> "fetchRole", actor |-> b]
            /\ \E u \in lookups[b] \ lookups'[b] : user_roles[u] = NoRole)
        => /\ browser'[b].role = NoRole
           /\ ~browser'[b].loading
           /\ NoCapability(PermissionsValue(browser'[b].role, browser'[b].loading)) ]_vars

\* the lookup for the signed-in super_admin has returned an error: no role is exposed
\* and loading is over
C24_Witness ==
  /\ req = [op |-> "fetchRole.error", actor |-> "b1"]
  /\ browser["b1"].user = "u1" /\ user_roles["u1"] = "super_admin" /\ lookups["b1"] = {}
  /\ browser["b1"].role = NoRole /\ ~browser["b1"].loading

\* ---------------------------------- specification: switching identities
\* sign-ins and sign-outs in the two browsers, every lookup returning its row; the
\* stored roles do not change
NextSwitch ==
  \/ \E b \in Browsers, u \in Actors : PermissionsProvider_useEffect(b, u)
  \/ \E b \in Browsers, u \in Users : fetchRole_await(b, u, FALSE)

SpecSwitch == InitLoad /\ [][NextSwitch]_vars

\* C26: whenever the context reports loading = false for a signed-in user, the role
\* it exposes is the one a lookup for that user returned (the stored role, which does
\* not change here), so the Team page's gate !loading && !canManageUsers does not
\* fire for a stored super_admin.
C26_RoleBelongsToUser ==
  \A b \in Browsers :
    LET p == usePermissions(b) IN
    (browser[b].user # Anon /\ ~p.loading)
      => /\ p.role = user_roles[browser[b].user]
         /\ (has_role(browser[b].user, "super_admin") => p.canManageUsers)

\* ------------------------------------------ specification: settings area
\* the route path is opened in browser b (a link or the address bar): the page is
\* mounted and its effects run
navigate(b, path) ==
  /\ location' = [location EXCEPT ![b] = Settings_useEffect(path, usePermissions(b))]
  /\ req' = [op |-> "navigate", actor |-> b]
  /\ UNCHANGED <<user_roles, is_active, browser, folderVars, inviteVars, callVars,
                 webhook, lookups, members, saveBefore>>

NextSettings ==
  \/ \E b \in Browsers, u \in Actors : PermissionsProvider_useEffect(b, u)
  \/ \E b \in Browsers, u \in Users : fetchRole_await(b, u, FALSE)
  \/ \E b \in Browsers, path \in {"/dashboard", "/settings"} : navigate(b, path)

SpecSettings == InitLoad /\ [][NextSettings]_vars

\* C25: once permission loading has finished (no lookup is in flight), a signed-in
\* user whose exposed role is not >= admin, no role included, is not on the settings
\* route and the sidebar shows no settings entry.
C25_SettingsNeedsAdmin ==
  \A b \in Browsers :
    LET p == usePermissions(b) IN
    (browser[b].user # Anon /\ ~p.loading /\ lookups[b] = {} /\ ~hasRole(p.role, "admin"))
      => /\ location[b] # "/settings"
         /\ "/settings" \notin Sidebar_visibleItems(p)

\* ------------------------------------------- Team page with its own list
\* SELECT on user_roles: "Super admins can manage all roles", "Users can view own
\* role", "Admins can view all roles"
user_roles_select_ok(uid, target) ==
  has_role(uid, "super_admin") \/ uid = target \/ has_role(uid, "admin")

\* Team.fetchData: the profiles the caller may see, each with the role found in the
\* user_roles rows returned, 'reader' when none is found; rolesFailed = the user_roles
\* request returned an error, which is logged and leaves the roles map empty
Team_fetchData(b, rolesFailed) ==
  LET actor == browser[b].user
      listed(u) == u \in auth_users /\ UsersCanViewProfilesBasedOnRole(actor, u)
      role(u) == IF ~rolesFailed /\ user_roles_select_ok(actor, u) /\ user_roles[u] # NoRole
                 THEN user_roles[u]
                 ELSE "reader"
  IN  /\ ~usePermissions(b).loading /\ usePermissions(b).canManageUsers
      /\ members' = [members EXCEPT
            ![b] = [u \in Users |-> IF listed(u) THEN role(u) ELSE "absent"]]
      /\ req' = [op |-> IF rolesFailed THEN "Team.fetchData.rolesError" ELSE "Team.fetchData",
                 actor |-> b]
      /\ UNCHANGED <<user_roles, is_active, browser, folderVars, inviteVars, callVars,
                     webhook, lookups, location, saveBefore>>

\* the row menu (Modifier le rôle, Désactiver, Supprimer) is rendered for a listed
\* member other than the user whose listed role is not super_admin
Team_menuOffered(b, target) ==
  /\ ~usePermissions(b).loading /\ usePermissions(b).canManageUsers
  /\ members[b][target] \notin {"absent", "super_admin"}
  /\ target # browser[b].user

\* the roles the edit role dialog offers
Team_roleItems == {"admin", "editor", "reader"}

\* Team.handleChangeRole from the row menu and the edit role dialog
Team_handleChangeRole(b, target, newRole) ==
  LET actor == browser[b].user
      ok == SuperAdminsCanManageAllRoles(actor) /\ user_roles[target] # NoRole
  IN  /\ Team_menuOffered(b, target)
      /\ newRole \in Team_roleItems
      /\ user_roles' = user_roles_update(actor, target, newRole)
      /\ members' = [members EXCEPT ![b][target] = newRole]
      /\ req' = [op |-> "user_roles.update", actor |-> actor]
      /\ UNCHANGED <<is_active, browser, folderVars, inviteVars, callVars, webhook,
                     lookups, location, saveBefore>>

\* Team.handleToggleActive from the row menu
Team_handleToggleActive(b, target) ==
  /\ Team_menuOffered(b, target)
  /\ is_active' =
        IF ProfilesUpdatePolicy(browser[b].user, target)
        THEN [is_active EXCEPT ![target] = ~is_active[target]]
        ELSE is_active
  /\ req' = [op |-> "profiles.update", actor |-> browser[b].user]
  /\ UNCHANGED <<user_roles, browser, folderVars, inviteVars, callVars, sideVars>>

\* Team.handleDeleteUser from the row menu and its confirmation: the user_roles
\* delete, then the profiles delete, after which the member leaves the list
Team_handleDeleteUser(b, target) ==
  /\ Team_menuOffered(b, target)
  /\ user_roles' = user_roles_delete(browser[b].user, target)
  /\ members' = [members EXCEPT ![b][target] = "absent"]
  /\ req' = [op |-> "user_roles.delete", actor |-> browser[b].user]
  /\ UNCHANGED <<is_active, browser, folderVars, inviteVars, callVars, webhook,
                 lookups, location, saveBefore>>

\* -------------------------------------------- specification: Team page
\* two super_admins; u3 has no account yet
InitTeam ==
  /\ user_roles = [u \in Users |-> IF u \in {"u1", "u2"} THEN "super_admin" ELSE NoRole]
  /\ is_active = [u \in Users |-> TRUE]
  /\ browser = InitBrowser
  /\ folders = [f \in FolderIds |-> NoFolder]
  /\ folder_permissions = {}
  /\ documents = [d \in DocIds |-> NoDoc]
  /\ req = NoReq
  /\ invitations = [i \in InviteIds |-> NoInvite]
  /\ auth_users = {"u1", "u2"}
  /\ now = 0
  /\ acceptPage = InitAcceptPage
  /\ submitting = InitSubmitting
  /\ inviteDialog = InitInviteDialog
  /\ accessDialog = InitAccessDialog
  /\ InitSideVars

NextTeam ==
  \/ signIn("b1", "u1")
  \/ fetchRole("b1", FALSE)
  \/ \E rolesFailed \in BOOLEAN : Team_fetchData("b1", rolesFailed)
  \/ \E t \in Users, r \in AppRoles : Team_handleChangeRole("b1", t, r)
  \/ \E t \in Users : Team_handleToggleActive("b1", t)
  \/ \E t \in Users : Team_handleDeleteUser("b1", t)
  \/ \E r \in InviteRoles : InviteUserDialog_handleSubmit("b1", "u3", r)
  \/ \E t \in InviteIds : fetchInvitation("b1", t, FALSE)
  \/ \E session \in BOOLEAN : AcceptInvite_handleSubmit("b1", session, "none")

SpecTeam == InitTeam /\ [][NextTeam]_vars

\* the accounts whose stored role is super_admin
superAdmins == {u \in Users : user_roles[u] = "super_admin"}

\* C27: no operation of the Team page or of the invitation flow changes the set of
\* super_admin accounts, and the row menu (role change, deactivation, deletion) is
\* never offered for a stored super_admin or for the user's own account; the role
\* selector does not offer super_admin.
C27_SuperAdminsUnchanged ==
  /\ [][superAdmins' = superAdmins]_vars
  /\ [](\A b \in Browsers, t \in Users :
          Team_menuOffered(b, t) => (user_roles[t] # "super_admin" /\ t # browser[b].user))
  /\ []("super_admin" \notin Team_roleItems)

\* ------------------------------------ specification: saves with failures
\* the admin creates a folder and saves its access several times, any request of a
\* save possibly returning an error
NextSave ==
  \/ signIn("b1", "u2")
  \/ fetchRole("b1", FALSE)
  \/ \E f \in FolderIds : handleCreateFolder("b1", f)
  \/ \E f \in FolderIds, level \in AccessLevels, sel \in SUBSET Users, failed \in BOOLEAN :
        handleSave_update("b1", f, level, sel, failed)
  \/ \E failed \in BOOLEAN : handleSave_delete("b1", failed)
  \/ \E failed \in BOOLEAN : handleSave_insert("b1", failed)

SpecSave == InitAccess /\ [][NextSave]_vars

\* who can view folder f once it has the level and exactly the grants of a save
intendedViewers(f, level, sel) ==
  {u \in Users :
     \/ folders[f].user_id = u
     \/ has_role(u, "super_admin")
     \/ level = "team"
     \/ (level = "private" /\ folders[f].created_by = u)
     \/ (level = "custom" /\ u \in sel)}

SaveSteps == {"handleSave.update", "handleSave.delete", "handleSave.insert"}

\* C28: after each request of handleSave, failed or not, the users who can view the
\* folder are among those who could view it when the save began and those the save
\* intends.
C28_NoStrangerGainsVisibility ==
  \A b \in Browsers :
    LET d == accessDialog[b] IN
    (req.op \in SaveSteps /\ req.actor = browser[b].user /\ d.folder # NullFolder)
      => viewersOf(d.folder) \subseteq
            (saveBefore[b] \cup intendedViewers(d.folder, d.level, d.sel))



\* ---------------------------------------------------------------------------
\* two managers saving the access of the same folder at the same time
\* ---------------------------------------------------------------------------

\* the selections the two dialogs submit
RaceSelections == {{"u1"}, {"u3"}, {"u1", "u3"}}

NextSaveRace ==
  \/ signIn("b1", "u2")
  \/ signIn("b2", "u1")
  \/ \E b \in Browsers : fetchRole(b, FALSE)
  \/ handleCreateFolder("b1", 1)
  \/ \E b \in Browsers, sel \in RaceSelections :
        handleSave_update(b, 1, "custom", sel, FALSE)
  \/ \E b \in Browsers : handleSave_delete(b, FALSE)
  \/ \E b \in Browsers : handleSave_insert(b, FALSE)

SpecSaveRace == InitAccess /\ [][NextSaveRace]_vars

\* both dialogs have saved folder f as custom and neither call is still running
bothSaved(f) ==
  \A b \in Browsers :
    /\ accessDialog[b].pc = "idle"
    /\ accessDialog[b].folder = f
    /\ accessDialog[b].level = "custom"

\* C29: once two managers' saves of the same folder as custom have both finished, the
\* folder's grants are exactly the selection of one of the two calls.
C29_SavesSerialize ==
  \A f \in FolderIds :
    bothSaved(f) =>
      \E b \in Browsers : grantsOf(f) = {<<f, u>> : u \in accessDialog[b].sel}



\* ---------------------------------------------------------------------------
\* the three formulations of folder visibility
\* ---------------------------------------------------------------------------

\* FUNCTION can_access_folder(_user_id, _folder_id): EXISTS over the folders row with
\* f.id = _folder_id AND f.user_id = _user_id AND (the visibility disjunction)
can_access_folder(_user_id, _folder_id) ==
  /\ folderExists(_folder_id)
  /\ folders[_folder_id].user_id = _user_id
  /\ \/ has_role(_user_id, "super_admin")
     \/ folders[_folder_id].access_level = "team"
     \/ (folders[_folder_id].access_level = "private"
           /\ (folders[_folder_id].created_by = _user_id
                 \/ has_role(_user_id, "super_admin")))
     \/ (folders[_folder_id].access_level = "custom"
           /\ <<_folder_id, _user_id>> \in folder_permissions)

\* FUNCTION can_view_folder(_user_id, _folder_id, _folder_user_id, _access_level,
\* _created_by): the disjunction over the columns handed in
can_view_folder(_user_id, _folder_id, _folder_user_id, _access_level, _created_by) ==
  \/ _folder_user_id = _user_id
  \/ has_role(_user_id, "super_admin")
  \/ _access_level = "team"
  \/ (_access_level = "private" /\ _created_by = _user_id)
  \/ (_access_level = "custom" /\ <<_folder_id, _user_id>> \in folder_permissions)

NextVisibility ==
  \/ signIn("b1", "u2")
  \/ signIn("b2", "u1")
  \/ \E b \in Browsers : fetchRole(b, FALSE)
  \/ \E t \in Users, r \in AppRoles : handleChangeRole("b2", t, r)
  \/ \E f \in FolderIds : handleCreateFolder("b1", f)
  \/ \E f \in FolderIds, level \in AccessLevels, sel \in SUBSET Users :
        handleSave("b1", f, level, sel, "none")

SpecVisibility == InitAccess /\ [][NextVisibility]_vars

\* C30: for every user and every stored folder, can_access_folder, can_view_folder on
\* the folder's columns and the SELECT policy "Users can view accessible folders"
\* give the same answer.
C30_VisibilityFormulationsAgree ==
  \A u \in Users, f \in FolderIds :
    folderExists(f) =>
      /\ can_access_folder(u, f) = UsersCanViewAccessibleFolders(u, f)
      /\ can_view_folder(u, f, folders[f].user_id, folders[f].access_level,
                         folders[f].created_by)
            = UsersCanViewAccessibleFolders(u, f)

============================================================================
